---- MODULE Spec2Model ----
(***************************************************************************)
(* A model of the CSS selector builder (cssSelectorBuilder / Selector) and *)
(* of canDominoesMakeRow.                                                  *)
(*                                                                         *)
(* Selector objects live in a heap, addressed by their allocation number.  *)
(* The three arrays a constructor allocates (classes, attributes,          *)
(* pseudoClasses) live in a heap of their own, because Object.assign in    *)
(* Selector.combine copies the array REFERENCES of the left operand: a     *)
(* Selector's classes field holds the number of the Selector whose         *)
(* constructor allocated the array it points to.                           *)
(***************************************************************************)
EXTENDS Integers, Sequences, FiniteSets, TLC

\* ------------------------------------------------------------------ bounds
MaxSel == 3     \* Selector instances allocated in one run
MaxLen == 2     \* pushes onto one array in one run
MaxCalls == 3   \* calls made in one run
MaxPip == 3     \* the largest value on a domino tile drawn as input
MaxTiles == 3   \* the most tiles in one input

\* The values and combinators the calls draw from ("" is a JavaScript string
\* like any other, and a falsy one).
Values == {"", "a"}
Combinators == {"", "+"}
LegalCombinators == {" ", "+", "~", ">"}

\* ----------------------------------------------------------- JavaScript
\* null is <<>>; a string s held by a nullable field is <<s>>.
Null == <<>>
NoSel == 0      \* the null of a Selector reference

\* !x for a nullable string: null and '' are falsy.
Truthy(x) == x # Null /\ x[1] # ""

NoError == "none"
OrderError == "Selector parts should be arranged in the following order"
DuplicateError == "Element, id and pseudo-element should not occur more then one time"
RangeError == "Maximum call stack size exceeded"

VARIABLES
    heap,           \* heap[s]: the fields of Selector s
    arrays,         \* arrays[o]: the three arrays allocated by Selector o's constructor
    combined_from,  \* history: combined_from[s] = the left operand of the last combine on s, or NoSel
    call,           \* history: the last call made
    err,            \* the error the last call threw, or NoError
    ncalls,         \* the number of calls made so far
    ret,            \* what the last stringify returned (<<string>>), or Null
    dominoes,       \* the argument of canDominoesMakeRow
    result          \* what canDominoesMakeRow returned (<<boolean>>), or Null before the call

vars == <<heap, arrays, combined_from, call, err, ncalls, ret, dominoes, result>>

\* this.selectors
selectors == <<"element", "id", "class", "attr", "pseudoClass", "pseudoElement", "combine">>

\* Array.prototype.indexOf: the 0-based position of x, or -1
indexOf(seq, x) ==
    IF \E i \in 1..Len(seq) : seq[i] = x
    THEN (CHOOSE i \in 1..Len(seq) : seq[i] = x /\ \A j \in 1..(i - 1) : seq[j] # x) - 1
    ELSE -1

\* The code's state, as the methods below read and write it.
State == [heap |-> heap, arrays |-> arrays]

\* new Selector(): the fields set by the constructor of the n-th Selector
Selector(n) ==
    [index_of_selector |-> 0,
     element_val       |-> Null,
     id_val            |-> Null,
     classes           |-> n,
     attributes        |-> n,
     pseudoClasses     |-> n,
     pseudoElement_val |-> Null,
     combinator        |-> Null,
     selector2         |-> NoSel]

NewArrays == [classes |-> <<>>, attributes |-> <<>>, pseudoClasses |-> <<>>]

\* The state after `new Selector()`; the new object is Len(st.heap) + 1.
New(st) ==
    [heap   |-> Append(st.heap, Selector(Len(st.heap) + 1)),
     arrays |-> Append(st.arrays, NewArrays)]

\* A method's outcome: the state it leaves and the error it threw.
Returned(st) == [st |-> st, err |-> NoError]
Thrown(st, e) == [st |-> st, err |-> e]

\* Selector.check_order, with > mistaken for >=
check_order_strict(st, this, curr_elem) ==
    IF st.heap[this].index_of_selector >= indexOf(selectors, curr_elem)
    THEN Thrown(st, OrderError)
    ELSE Returned([st EXCEPT !.heap[this].index_of_selector = indexOf(selectors, curr_elem)])

\* Selector.check_order
check_order(st, this, curr_elem) ==
    IF st.heap[this].index_of_selector > indexOf(selectors, curr_elem)
    THEN Thrown(st, OrderError)
    ELSE Returned([st EXCEPT !.heap[this].index_of_selector = indexOf(selectors, curr_elem)])

\* Selector.element
element(st, this, value) ==
    LET co == check_order(st, this, "element") IN
    IF co.err # NoError THEN co
    ELSE IF ~Truthy(co.st.heap[this].element_val)
         THEN Returned([co.st EXCEPT !.heap[this].element_val = <<value>>])
         ELSE Thrown(co.st, DuplicateError)

\* Selector.id
id(st, this, value) ==
    LET co == check_order(st, this, "id") IN
    IF co.err # NoError THEN co
    ELSE IF ~Truthy(co.st.heap[this].id_val)
         THEN Returned([co.st EXCEPT !.heap[this].id_val = <<value>>])
         ELSE Thrown(co.st, DuplicateError)

\* Selector.class
class(st, this, value) ==
    LET co == check_order(st, this, "class") IN
    IF co.err # NoError THEN co
    ELSE Returned([co.st EXCEPT !.arrays[co.st.heap[this].classes].classes = Append(@, value)])

\* Selector.attr
attr(st, this, value) ==
    LET co == check_order(st, this, "attr") IN
    IF co.err # NoError THEN co
    ELSE Returned([co.st EXCEPT !.arrays[co.st.heap[this].attributes].attributes = Append(@, value)])

\* Selector.pseudoClass
pseudoClass(st, this, value) ==
    LET co == check_order(st, this, "pseudoClass") IN
    IF co.err # NoError THEN co
    ELSE Returned([co.st EXCEPT !.arrays[co.st.heap[this].pseudoClasses].pseudoClasses = Append(@, value)])

\* Selector.pseudoElement
pseudoElement(st, this, value) ==
    LET co == check_order(st, this, "pseudoElement") IN
    IF co.err # NoError THEN co
    ELSE IF ~Truthy(co.st.heap[this].pseudoElement_val)
         THEN Returned([co.st EXCEPT !.heap[this].pseudoElement_val = <<value>>])
         ELSE Thrown(co.st, DuplicateError)

\* Selector.combine: Object.assign(this, selector1) copies every own field of
\* selector1 (index_of_selector and the array references included) over this.
combine(st, this, selector1, combinator, selector2) ==
    LET co == check_order(st, this, "combine") IN
    IF co.err # NoError THEN co
    ELSE LET assigned == [co.st EXCEPT !.heap[this] = co.st.heap[selector1]] IN
         Returned([assigned EXCEPT !.heap[this].combinator = <<combinator>>,
                                   !.heap[this].selector2 = selector2])

\* array.forEach(v => result += before + v + after), from position i on
RECURSIVE forEach(_, _, _, _)
forEach(array, i, before, after) ==
    IF i > Len(array) THEN ""
    ELSE before \o array[i] \o after \o forEach(array, i + 1, before, after)

\* Selector.stringify, lines 212-226: the fragments of `this` alone
fragments(st, this) ==
    LET o == st.heap[this] IN
       (IF Truthy(o.element_val) THEN o.element_val[1] ELSE "")
    \o (IF Truthy(o.id_val) THEN "#" \o o.id_val[1] ELSE "")
    \o forEach(st.arrays[o.classes].classes, 1, ".", "")
    \o forEach(st.arrays[o.attributes].attributes, 1, "[", "]")
    \o forEach(st.arrays[o.pseudoClasses].pseudoClasses, 1, ":", "")
    \o (IF Truthy(o.pseudoElement_val) THEN "::" \o o.pseudoElement_val[1] ELSE "")

\* Selector.stringify with `frames` stack frames left. A selector2 chain
\* longer than the heap revisits a Selector, so the recursion never ends and the
\* engine throws RangeError.
RECURSIVE stringify_frames(_, _, _)
stringify_frames(st, this, frames) ==
    IF frames = 0 THEN [err |-> RangeError, str |-> ""]
    ELSE LET o == st.heap[this] IN
         IF Truthy(o.combinator) /\ o.selector2 # NoSel
         THEN LET rest == stringify_frames(st, o.selector2, frames - 1) IN
              IF rest.err # NoError THEN rest
              ELSE [err |-> NoError,
                    str |-> fragments(st, this) \o " " \o o.combinator[1] \o " " \o rest.str]
         ELSE [err |-> NoError, str |-> fragments(st, this)]

\* Selector.stringify: what it returns or throws
stringify(st, this) == stringify_frames(st, this, Len(st.heap))

\* ================================================================ calls
\* The record of a call: `facade` tells cssSelectorBuilder.op(...) (a new
\* Selector is the receiver) from op(...) called on a Selector already built.
Call(op, facade, this, value, selector1, selector2) ==
    [op |-> op, facade |-> facade, this |-> this, value |-> value,
     selector1 |-> selector1, selector2 |-> selector2]

NoCall == Call("none", FALSE, NoSel, "", NoSel, NoSel)

Allocated == 1..Len(heap)

\* No array of the outcome holds more than MaxLen values.
WithinBounds(out) ==
    \A o \in 1..Len(out.st.arrays) :
        /\ Len(out.st.arrays[o].classes) <= MaxLen
        /\ Len(out.st.arrays[o].attributes) <= MaxLen
        /\ Len(out.st.arrays[o].pseudoClasses) <= MaxLen

\* The call `c` ended with the outcome `out`.
Apply(out, c) ==
    /\ ncalls < MaxCalls
    /\ WithinBounds(out)
    /\ ncalls' = ncalls + 1
    /\ heap' = out.st.heap
    /\ arrays' = out.st.arrays
    /\ err' = out.err
    /\ call' = c
    /\ ret' = Null
    /\ UNCHANGED <<dominoes, result>>

Init ==
    /\ heap = <<>>
    /\ arrays = <<>>
    /\ combined_from = <<>>
    /\ call = NoCall
    /\ err = NoError
    /\ ncalls = 0
    /\ ret = Null
    /\ dominoes = <<>>
    /\ result = Null

\* ------------------------------------------------- cssSelectorBuilder.*
\* cssSelectorBuilder.element
builder_element ==
    \E value \in Values :
        /\ Len(heap) < MaxSel
        /\ LET this == Len(heap) + 1 IN
           Apply(element(New(State), this, value),
                 Call("element", TRUE, this, value, NoSel, NoSel))
        /\ combined_from' = Append(combined_from, NoSel)

\* cssSelectorBuilder.id
builder_id ==
    \E value \in Values :
        /\ Len(heap) < MaxSel
        /\ LET this == Len(heap) + 1 IN
           Apply(id(New(State), this, value),
                 Call("id", TRUE, this, value, NoSel, NoSel))
        /\ combined_from' = Append(combined_from, NoSel)

\* cssSelectorBuilder.class
builder_class ==
    \E value \in Values :
        /\ Len(heap) < MaxSel
        /\ LET this == Len(heap) + 1 IN
           Apply(class(New(State), this, value),
                 Call("class", TRUE, this, value, NoSel, NoSel))
        /\ combined_from' = Append(combined_from, NoSel)

\* cssSelectorBuilder.attr
builder_attr ==
    \E value \in Values :
        /\ Len(heap) < MaxSel
        /\ LET this == Len(heap) + 1 IN
           Apply(attr(New(State), this, value),
                 Call("attr", TRUE, this, value, NoSel, NoSel))
        /\ combined_from' = Append(combined_from, NoSel)

\* cssSelectorBuilder.pseudoClass
builder_pseudoClass ==
    \E value \in Values :
        /\ Len(heap) < MaxSel
        /\ LET this == Len(heap) + 1 IN
           Apply(pseudoClass(New(State), this, value),
                 Call("pseudoClass", TRUE, this, value, NoSel, NoSel))
        /\ combined_from' = Append(combined_from, NoSel)

\* cssSelectorBuilder.pseudoElement
builder_pseudoElement ==
    \E value \in Values :
        /\ Len(heap) < MaxSel
        /\ LET this == Len(heap) + 1 IN
           Apply(pseudoElement(New(State), this, value),
                 Call("pseudoElement", TRUE, this, value, NoSel, NoSel))
        /\ combined_from' = Append(combined_from, NoSel)

\* cssSelectorBuilder.combine
builder_combine ==
    \E selector1 \in Allocated, combinator \in Combinators, selector2 \in Allocated :
        /\ Len(heap) < MaxSel
        /\ LET this == Len(heap) + 1 IN
           /\ Apply(combine(New(State), this, selector1, combinator, selector2),
                    Call("combine", TRUE, this, combinator, selector1, selector2))
           /\ combined_from' = Append(combined_from, selector1)

\* ------------------------------------ calls chained on a built Selector
\* selector.element(value)
chain_element ==
    \E this \in Allocated, value \in Values :
        /\ Apply(element(State, this, value),
                 Call("element", FALSE, this, value, NoSel, NoSel))
        /\ UNCHANGED combined_from

\* selector.id(value)
chain_id ==
    \E this \in Allocated, value \in Values :
        /\ Apply(id(State, this, value),
                 Call("id", FALSE, this, value, NoSel, NoSel))
        /\ UNCHANGED combined_from

\* selector.class(value)
chain_class ==
    \E this \in Allocated, value \in Values :
        /\ Apply(class(State, this, value),
                 Call("class", FALSE, this, value, NoSel, NoSel))
        /\ UNCHANGED combined_from

\* selector.attr(value)
chain_attr ==
    \E this \in Allocated, value \in Values :
        /\ Apply(attr(State, this, value),
                 Call("attr", FALSE, this, value, NoSel, NoSel))
        /\ UNCHANGED combined_from

\* selector.pseudoClass(value)
chain_pseudoClass ==
    \E this \in Allocated, value \in Values :
        /\ Apply(pseudoClass(State, this, value),
                 Call("pseudoClass", FALSE, this, value, NoSel, NoSel))
        /\ UNCHANGED combined_from

\* selector.pseudoElement(value)
chain_pseudoElement ==
    \E this \in Allocated, value \in Values :
        /\ Apply(pseudoElement(State, this, value),
                 Call("pseudoElement", FALSE, this, value, NoSel, NoSel))
        /\ UNCHANGED combined_from

\* selector.combine(selector1, combinator, selector2), on a Selector already built
chain_combine ==
    \E this \in Allocated, selector1 \in Allocated,
       combinator \in Combinators, selector2 \in Allocated :
        /\ Apply(combine(State, this, selector1, combinator, selector2),
                 Call("combine", FALSE, this, combinator, selector1, selector2))
        /\ combined_from' = [combined_from EXCEPT ![this] = selector1]

\* selector.stringify(), with a loop that consumes this.classes (shift()) in
\* place of forEach
stringify_consuming(this) ==
    LET r == stringify(State, this) IN
    /\ ncalls < MaxCalls
    /\ ncalls' = ncalls + 1
    /\ err' = r.err
    /\ ret' = IF r.err = NoError THEN <<r.str>> ELSE Null
    /\ call' = Call("stringify", FALSE, this, "", NoSel, NoSel)
    /\ arrays' = [arrays EXCEPT ![heap[this].classes].classes = <<>>]
    /\ UNCHANGED <<heap, combined_from, dominoes, result>>

\* selector.stringify()
chain_stringify(this) ==
    LET r == stringify(State, this) IN
    /\ ncalls < MaxCalls
    /\ ncalls' = ncalls + 1
    /\ err' = r.err
    /\ ret' = IF r.err = NoError THEN <<r.str>> ELSE Null
    /\ call' = Call("stringify", FALSE, this, "", NoSel, NoSel)
    /\ UNCHANGED <<heap, arrays, combined_from, dominoes, result>>

\* The calls a client of cssSelectorBuilder makes without calling combine on
\* a Selector it already holds.
FacadeNext ==
    \/ builder_element
    \/ builder_id
    \/ builder_class
    \/ builder_attr
    \/ builder_pseudoClass
    \/ builder_pseudoElement
    \/ builder_combine
    \/ chain_element
    \/ chain_id
    \/ chain_class
    \/ chain_attr
    \/ chain_pseudoClass
    \/ chain_pseudoElement
    \/ \E this \in Allocated : chain_stringify(this)

\* Every call the returned objects allow.
Next ==
    \/ FacadeNext
    \/ chain_combine

Spec == Init /\ [][Next]_vars

FacadeSpec == Init /\ [][FacadeNext]_vars

\* ================================================== canDominoesMakeRow
\* new Array(7): the tile values are 0..6
ArraySize == 7

\* The tiles and inputs drawn: every sequence of at most MaxTiles tiles.
Tiles == (0..MaxPip) \X (0..MaxPip)
Inputs == UNION {[1..n -> Tiles] : n \in 0..MaxTiles}

\* valuesCount after the first n tiles (lines 195-198)
RECURSIVE valuesCount(_, _)
valuesCount(ds, n) ==
    IF n = 0 THEN [v \in 0..(ArraySize - 1) |-> 0]
    ELSE LET before == valuesCount(ds, n - 1)
             first == [before EXCEPT ![ds[n][1]] = @ + 1]
         IN  [first EXCEPT ![ds[n][2]] = @ + 1]

\* doubleExists after all the tiles (lines 199-201)
doubleExists(ds) ==
    [v \in 0..(ArraySize - 1) |-> \E n \in 1..Len(ds) : ds[n][1] = ds[n][2] /\ ds[n][1] = v]

\* oddCount: the sum of valuesCount[v] % 2 over v < n (lines 208-211)
RECURSIVE oddCount(_, _)
oddCount(count, n) ==
    IF n = 0 THEN 0 ELSE oddCount(count, n - 1) + (count[n - 1] % 2)

\* canDominoesMakeRow
canDominoesMakeRow(ds) ==
    LET count == valuesCount(ds, Len(ds))
        double == doubleExists(ds)
    IN  IF \E i \in 0..(ArraySize - 1) : count[i] = 2 /\ double[i]
        THEN FALSE
        ELSE LET odd == oddCount(count, ArraySize) IN odd = 0 \/ odd = 2

\* The call canDominoesMakeRow(dominoes)
call_canDominoesMakeRow ==
    /\ result = Null
    /\ result' = <<canDominoesMakeRow(dominoes)>>
    /\ UNCHANGED <<heap, arrays, combined_from, call, err, ncalls, ret, dominoes>>

DominoInit ==
    /\ heap = <<>>
    /\ arrays = <<>>
    /\ combined_from = <<>>
    /\ call = NoCall
    /\ err = NoError
    /\ ncalls = 0
    /\ ret = Null
    /\ dominoes \in Inputs
    /\ result = Null

DominoNext == call_canDominoesMakeRow

DominoSpec == DominoInit /\ [][DominoNext]_vars

\* =============================================================== claims
\* The fragment kinds and their ranks, as the specification lists them.
FragmentKinds == {"element", "id", "class", "attr", "pseudoClass", "pseudoElement"}
SingleKinds == {"element", "id", "pseudoElement"}
RepeatableKinds == {"class", "attr", "pseudoClass"}
RankOf(kind) ==
    CASE kind = "element" -> 0
      [] kind = "id" -> 1
      [] kind = "class" -> 2
      [] kind = "attr" -> 3
      [] kind = "pseudoClass" -> 4
      [] kind = "pseudoElement" -> 5

\* The single-occurrence field of kind `kind` of the object o
FieldOf(o, kind) ==
    CASE kind = "element" -> o.element_val
      [] kind = "id" -> o.id_val
      [] kind = "pseudoElement" -> o.pseudoElement_val

\* The array of kind `kind` the Selector `this` points to, in the state st
ArrayOf(st, this, kind) ==
    CASE kind = "class" -> st.arrays[st.heap[this].classes].classes
      [] kind = "attr" -> st.arrays[st.heap[this].attributes].attributes
      [] kind = "pseudoClass" -> st.arrays[st.heap[this].pseudoClasses].pseudoClasses

\* The code's state after the step
StateNext == [heap |-> heap', arrays |-> arrays']

\* The step is a call (every call counts itself in ncalls).
IsCall == ncalls' = ncalls + 1

\* The order cursor the receiver of the step's call has when the call starts:
\* a facade call runs on a Selector just constructed.
CursorAtCall == IF call'.facade THEN 0 ELSE heap[call'.this].index_of_selector

\* The Selectors reached from s by selector2 references (s itself excluded
\* unless a reference leads back to it), following at most `steps` references.
RECURSIVE ChainOf(_, _, _)
ChainOf(st, s, steps) ==
    IF steps = 0 \/ st.heap[s].selector2 = NoSel THEN {}
    ELSE {st.heap[s].selector2} \cup ChainOf(st, st.heap[s].selector2, steps - 1)

\* Following selector2 from s ends at null.
RECURSIVE EndsWithin(_, _, _)
EndsWithin(st, s, steps) ==
    \/ st.heap[s].selector2 = NoSel
    \/ steps > 0 /\ EndsWithin(st, st.heap[s].selector2, steps - 1)

\* C1: a fragment call of rank r on a Selector whose order cursor is greater
\* than r throws the order error and changes nothing; with the cursor at most
\* r the order check passes and the cursor becomes r, and a class, attr or
\* pseudoClass call then succeeds and appends its value (a same-kind repeat
\* included).
C1_OrderCheck ==
    [][ (IsCall /\ call'.op \in FragmentKinds) =>
          LET this == call'.this
              r == RankOf(call'.op)
          IN  IF CursorAtCall > r
              THEN /\ err' = OrderError
                   /\ heap' = heap
                   /\ arrays' = arrays
              ELSE /\ err' # OrderError
                   /\ heap'[this].index_of_selector = r
                   /\ call'.op \in RepeatableKinds =>
                        /\ err' = NoError
                        /\ ~call'.facade =>
                             ArrayOf(StateNext, this, call'.op)
                               = Append(ArrayOf(State, this, call'.op), call'.value)
      ]_vars

\* C1 witness: class(...) called after attr(...) on the same chain has thrown
\* the order error.
C1_Witness ==
    /\ call.op = "class"
    /\ ~call.facade
    /\ err = OrderError
    /\ heap[call.this].index_of_selector = 3
    /\ Len(ArrayOf(State, call.this, "attr")) > 0

\* C2: once element, id or pseudoElement has been set on a Selector by a call
\* (with any string, the empty one included), a second call of the same kind
\* on it fails (with the duplicate error when the order check passes) and the
\* field keeps its first value.
C2_SetAtMostOnce ==
    [][ (/\ IsCall
         /\ call'.op \in SingleKinds
         /\ ~call'.facade
         /\ combined_from[call'.this] = NoSel
         /\ FieldOf(heap[call'.this], call'.op) # Null) =>
          /\ err' = (IF CursorAtCall > RankOf(call'.op) THEN OrderError ELSE DuplicateError)
          /\ FieldOf(heap'[call'.this], call'.op) = FieldOf(heap[call'.this], call'.op)
      ]_vars

\* The concatenation rule: array values each between `before` and `after`
RECURSIVE Joined(_, _, _)
Joined(seq, before, after) ==
    IF seq = <<>> THEN ""
    ELSE before \o Head(seq) \o after \o Joined(Tail(seq), before, after)

\* The concatenation rule for the fragments of s: each part appears if set.
Concatenation(s) ==
    LET o == heap[s] IN
       (IF o.element_val # Null THEN o.element_val[1] ELSE "")
    \o (IF o.id_val # Null THEN "#" \o o.id_val[1] ELSE "")
    \o Joined(arrays[o.classes].classes, ".", "")
    \o Joined(arrays[o.attributes].attributes, "[", "]")
    \o Joined(arrays[o.pseudoClasses].pseudoClasses, ":", "")
    \o (IF o.pseudoElement_val # Null THEN "::" \o o.pseudoElement_val[1] ELSE "")

\* C3: stringify() on a Selector with no combinator returns exactly element if
\* set, '#'+id if set, '.'+c per class, '['+a+']' per attribute, ':'+p per
\* pseudo-class, '::'+pseudoElement if set, in insertion order, for any string
\* values (the empty string included).
C3_RenderRule ==
    (call.op = "stringify" /\ heap[call.this].combinator = Null) =>
        /\ err = NoError
        /\ ret = <<Concatenation(call.this)>>

\* C4: cssSelectorBuilder.combine(left, c, right) accepts any string c (the
\* empty one included) and the result's stringify() is the left operand's
\* fragments, then ' ' + c + ' ', then right.stringify().
C4_AnyCombinator ==
    (call.op = "combine" /\ call.facade) =>
        stringify(State, call.this) =
            [err |-> NoError,
             str |-> fragments(State, call.selector1) \o " " \o call.value \o " "
                       \o stringify(State, call.selector2).str]

\* C5: for Selectors L and R built through the facade (each possibly the
\* result of combine) and a combinator c of ' ', '+', '~', '>',
\* combine(L, c, R).stringify() = L.stringify() + ' ' + c + ' ' + R.stringify().
C5_Concatenation ==
    (call.op = "combine" /\ call.facade /\ call.value \in LegalCombinators) =>
        stringify(State, call.this) =
            [err |-> NoError,
             str |-> stringify(State, call.selector1).str \o " " \o call.value \o " "
                       \o stringify(State, call.selector2).str]

\* C6: a Selector built by combine(left, c, right) holds its own copy of
\* left's fragment state: a later successful fragment call on left changes
\* neither the combined Selector's own fragments nor (left not being part of
\* its right operand) its stringify() output, and a later fragment call on the
\* combined Selector leaves left.stringify() unchanged.
C6_IndependentCopy ==
    [][ (IsCall /\ call'.op \in FragmentKinds /\ ~call'.facade /\ err' = NoError) =>
          LET this == call'.this
              left == combined_from[this]
          IN  /\ \A n \in Allocated :
                    (combined_from[n] = this /\ n # this) =>
                        /\ fragments(StateNext, n) = fragments(State, n)
                        /\ this \notin ChainOf(State, n, Len(heap)) =>
                             stringify(StateNext, n) = stringify(State, n)
              /\ (left # NoSel /\ left # this /\ this \notin ChainOf(State, left, Len(heap))) =>
                    stringify(StateNext, left) = stringify(State, left)
      ]_vars

\* C7: in every state reached by facade calls and by method calls on new or
\* existing Selectors, the selector2 chain from any Selector is finite and
\* acyclic, and stringify() returns a string.
C7_StringifyTotal ==
    /\ \A s \in Allocated :
          /\ EndsWithin(State, s, Len(heap))
          /\ stringify(State, s).err = NoError
    /\ call.op = "stringify" => (err = NoError /\ ret # Null)

RECURSIVE RowFrom(_, _, _)
RowFrom(ds, used, open) ==
    \/ used = 1..Len(ds)
    \/ \E i \in (1..Len(ds)) \ used :
          \/ ds[i][1] = open /\ RowFrom(ds, used \cup {i}, ds[i][2])
          \/ ds[i][2] = open /\ RowFrom(ds, used \cup {i}, ds[i][1])

\* The reference: some ordering and orientation of all the tiles is a row.
CanMakeRow(ds) ==
    \/ Len(ds) = 0
    \/ \E i \in 1..Len(ds) :
          \/ RowFrom(ds, {i}, ds[i][2])
          \/ RowFrom(ds, {i}, ds[i][1])

\* C9: canDominoesMakeRow(dominoes) is true exactly when all the tiles can be
\* placed in one row, each used once, adjacent ends equal.
C9_DominoRow ==
    result # Null => result[1] = CanMakeRow(dominoes)

\* C10: combine leaves the receiver's cursor at rank 6 (combine), so every
\* later fragment call on that Selector throws the order error.
C10_CombineTerminal ==
    /\ call.op = "combine" => heap[call.this].index_of_selector = 6
    /\ (call.op \in FragmentKinds /\ ~call.facade /\ combined_from[call.this] # NoSel) =>
          err = OrderError

\* C11: every Selector's order cursor is at least the rank of every fragment
\* kind it holds: id set implies cursor >= 1, classes non-empty implies
\* cursor >= 2, attributes non-empty implies cursor >= 3, pseudoClasses
\* non-empty implies cursor >= 4, pseudoElement set implies cursor >= 5.
C11_CursorCoversContent ==
    \A s \in Allocated :
        LET o == heap[s] IN
        /\ o.id_val # Null => o.index_of_selector >= 1
        /\ Len(ArrayOf(State, s, "class")) > 0 => o.index_of_selector >= 2
        /\ Len(ArrayOf(State, s, "attr")) > 0 => o.index_of_selector >= 3
        /\ Len(ArrayOf(State, s, "pseudoClass")) > 0 => o.index_of_selector >= 4
        /\ o.pseudoElement_val # Null => o.index_of_selector >= 5

====
